---- MODULE Spec2Model ----
(***************************************************************************)
(* The 99designs contest crawler: the per-contest pipeline of              *)
(* Crawl99designEntry.py (get_brief_info, the page pool of download_images *)
(* and its aggregation) and the campaign controller of main_afterpage.py   *)
(* (download_contest_with_retry and main).                                 *)
(*                                                                         *)
(* The specifications share the variables and the actions:                 *)
(*   SpecBrief     get_brief_info on one contest, run after run;           *)
(*   SpecPool      main on one contest whose brief has no assets: the page *)
(*                 pool, the aggregation, the whole-unit retry and the     *)
(*                 bookkeeping of main, in one process;                    *)
(*   Spec          the same with brief assets, interrupts and restarts, on *)
(*                 smaller inputs;                                         *)
(*   SpecCampaign  the loop of main over several contests, the pipeline of *)
(*                 a contest taken as one step, with interrupts and        *)
(*                 restarts.                                               *)
(***************************************************************************)
EXTENDS Integers, Sequences, FiniteSets, TLC

\* ------------------------------------------------------------------ bounds
\* Calls of the pipeline on one contest that are explored (the first call and
\* the whole-unit retries, or the calls of later processes, after it).
MaxRuns == 2
\* Processes (runs of main) that are explored.
MaxStarts == 2
\* Longest list of publicId matches on a brief page that is explored.
MaxBrief == 2
\* Brief asset ids (publicId values).
Assets == {"a", "b"}
\* Largest page count get_total_pages returns that is explored.
MaxPages == 2
\* Entry numbers (the Entry column), and the longest listing page explored.
Entries == {1, 2}
MaxPerPage == 2
\* Entries whose div carries no data-design-id (DesignID is then null).
NoDesign == {2}
\* Contests of the input list of a campaign.
NumContests == 3
\* Largest value of max_retries that safe_request is explored with.
MaxTries == 3
\* Contests of the input list of a campaign long enough for a checkpoint.
NumUnits == 6
\* The most pages a listing has where only the scheduling of the pool is followed.
MaxListed == 4

\* ------------------------------------------------- constants of the program
\* for attempt in range(8): the brief-asset download loop.
BriefAttempts == 8
\* ThreadPoolExecutor(max_workers=3).
max_workers == 3
\* max_retries=20 in main's call of download_contest_with_retry.
max_retries == 20
\* if successful_downloads % 5 == 0: the checkpoint period.
CheckpointEvery == 5
\* if len(failed_contests) >= 10: the failure records are flushed.
FailureFlush == 10
\* base_delay=2 in main's call of download_contest_with_retry, in tenths of a second.
base_delay == 20
\* min(..., 300): the cap of the wait between whole-unit attempts, in tenths.
max_wait == 3000
\* Ten times the draws of uniform(0.5, 1.5) that are explored: both ends and
\* the middle.
WaitJitters == {5, 10, 15}
\* min(delay, 30): the cap of the delay of safe_request, in tenths of a second.
max_delay == 300
\* The upper end of random.uniform(0.5, 1.5) in safe_request, in tenths.
max_jitter == 15
\* The draws of uniform(0.5, 1.5) explored in safe_request, in tenths of a second.
DelayJitters == {5, 10, max_jitter}
\* The draws of uniform(3, 8) explored after a connection reset, in tenths.
ResetDelays == {30, 80}
\* The values of base_delay safe_request is explored with, in tenths of a
\* second: its default of 2 s, and one that reaches the cap at the second retry.
BaseDelays == {20, 200}

None == "None"

\* Line 160 of main_afterpage.py: the columns check_contest_completion asks for.
required_columns == {"DesignID", "Entry", "UserID"}

\* A file that holds rows: absent, or there with its rows.  A file the
\* program wrote can be read back and has the columns of its rows; of the
\* columns, the required ones and ContestID are told apart here.  torn tells
\* that the write of the file was cut short, so that it holds only the
\* first rows of what was being written.
NoFile == [exists |-> FALSE, rows |-> <<>>, readable |-> FALSE, columns |-> {},
           torn |-> FALSE]
File(rows) == [exists |-> TRUE, rows |-> rows, readable |-> TRUE,
               columns |-> required_columns \cup {"ContestID"}, torn |-> FALSE]

VARIABLES
    \* ---- durable state: the directory of the contest being crawled
    journal,            \* <contest_id>_download_progress.txt: the lines, in order
    refFiles,           \* RefImage/: file name -> the asset whose bytes it holds
    imgFiles,           \* entries whose <entry>_<user>_entry.png exists
    \* ---- durable state: the campaign directory
    csvFile,            \* contest -> Submission_Contestant_<id>_contest.csv
    progress,           \* crawl_progress.txt: the lines, in order
    aggFile,            \* the aggregated CSV
    failFile,           \* Failed_contests_entry.csv
    \* ---- control
    phase,              \* where the process is
    \* ---- main: locals
    contests,           \* contests_df: the contest ids, in order
    idx,                \* position of the loop of line 250
    completed_contests,
    all_contests_df,
    failed_contests,
    failed_df,
    successful_downloads,
    failed_downloads,
    skipped_downloads,
    \* ---- download_contest_with_retry: locals
    attempt,
    last_error,         \* the exception raised by the attempt, or "invalid"
    wait_time,          \* the wait being slept before a retry, in tenths of a second
    \* ---- get_brief_info: locals
    public_id_matches,  \* the publicId matches of the brief page
    references_public_ids, \* the designated reference id, or None
    downloaded_images,  \* the set loaded from the journal at the start
    bidx,               \* enumerate(..., start=1) index of the brief loop
    bstage,             \* "check" | "download" | "mark" inside the loop body
    battempt,           \* attempt of the brief download loop
    bchk,               \* the check made on the asset of this iteration, if any
    breq,               \* was a download request issued in this iteration?
    inspiration_count,
    reference_count,
    \* ---- download_images: locals
    total_pages,
    task,               \* page -> the state of fetch_and_download(page)
    successful_entries,
    csv_data,
    \* ---- history (not program state)
    run,                \* contest -> calls of the pipeline on it so far
    starts,             \* processes started so far
    completed,          \* assets whose bytes were once written completely
    doneBefore,         \* the assets recorded as downloaded (a journal line, an
                        \* image file) when the current call of the pipeline began
    lastRun,            \* the partial result of the last call of the pipeline
                        \* that came to its aggregation, if it was partial
    failedUnits,        \* contests that main recorded as failed (line 340)
    finalSaves,         \* times the final save of main (lines 367-388) ran
    \* ---- safe_request: arguments, locals and history of one call
    sr_max_retries,
    sr_base_delay,
    sr_attempt,
    sr_pc,              \* "idle" | "sleep" | "get" | "except" | "returned" | "raised"
    sr_delay,           \* the delay of line 58-59 last slept, in tenths of a second
    sr_raised,          \* the exception the call let through to its caller, or None
    sr_gets,            \* session.get calls issued by the call
    sr_sleeps,          \* backoff sleeps (line 61) taken by the call
    sr_failures         \* the exceptions of the failed attempts, in order

dirVars == <<journal, refFiles, imgFiles>>
campVars == <<csvFile, progress, aggFile, failFile>>
mainVars == <<contests, idx, completed_contests, all_contests_df, failed_contests,
              failed_df, successful_downloads, failed_downloads, skipped_downloads>>
briefVars == <<public_id_matches, references_public_ids, downloaded_images, bidx,
               bstage, battempt, bchk, breq, inspiration_count, reference_count>>
poolVars == <<total_pages, task, successful_entries, csv_data>>
retryVars == <<attempt, last_error, wait_time>>
histVars == <<run, starts, completed, doneBefore, lastRun, failedUnits, finalSaves>>
reqVars == <<sr_max_retries, sr_base_delay, sr_attempt, sr_pc, sr_delay, sr_raised,
             sr_gets, sr_sleeps, sr_failures>>
vars == <<dirVars, campVars, phase, mainVars, retryVars, briefVars, poolVars, histVars,
          reqVars>>

\* ------------------------------------------------------------------ helpers
Range(s) == {s[i] : i \in DOMAIN s}

SeqsUpTo(S, n) == UNION {[1..k -> S] : k \in 0..n}

\* The file names get_brief_info can write: <<kind, idx>> stands for
\* "<kind>_<idx>_<contest_id>.png".
RefNames == {"Ref", "Inspiration"} \X (1..MaxBrief)

\* What a brief page can hold: the list of publicId matches (an id may occur
\* more than once) and the designated reference id, which the References
\* pattern takes from one of those same matches.
BriefPages == {<<l, r>> \in SeqsUpTo(Assets, MaxBrief) \X (Assets \cup {None}) :
                   r = None \/ r \in Range(l)}

\* A brief page without any publicId.
NoAssetPages == {<<<<>>, None>>}

\* Brief pages with at most one publicId.
OneAssetPages == {pg \in BriefPages : Len(pg[1]) <= 1}

BriefAsset(id) == <<"brief", id>>
EntryAsset(e) == <<"entry", e>>

\* The assets the contest directory records as downloaded.
RecordedDownloads ==
    {BriefAsset(id) : id \in Range(journal)} \cup {EntryAsset(e) : e \in imgFiles}

\* History of a call of the pipeline, kept when its result was partial: a
\* page failed all its retries (failed), a fetched page held an entry with a
\* design id (valid); n is the number of different entries on the fetched
\* pages.  NoRun for any other call.
NoRun == [failed |-> FALSE, valid |-> FALSE, n |-> 0]

\* The state of one page task before it is submitted.
\* chk and req tell, for the entry being processed, which already-downloaded
\* check was made and whether a download request was issued.  raised tells
\* that the task ended with an exception in the place of a result.
IdleTask == [st |-> "idle", ok |-> FALSE, entries |-> <<>>, i |-> 1,
             stage |-> "dedup", url |-> FALSE, chk |-> "none", req |-> FALSE,
             page_data |-> <<>>, visited_authors |-> {}, raised |-> FALSE]

\* The contest the process is working on.
Cur == contests[idx]

\* -------------------------------------------------------- get_brief_info
\* Lines 240-246: the journal is read into a set once, before the loop.
LoadJournal == Range(journal)

\* IsReference that holds for every asset once a reference id is designated.
IsReference_Any(id) == references_public_ids # None

\* Lines 255-260: the class and the file name of the asset at position idx.
IsReference(id) == references_public_ids # None /\ id = references_public_ids

ImgFilename(idx_, id) == <<IF IsReference(id) THEN "Ref" ELSE "Inspiration", idx_>>

\* Line 165 succeeded; lines 222-246.  No publicId: return at once with both
\* counts 0 (line 225); otherwise set up the loop.
BriefFetchFrom(pages) ==
    /\ phase = "start"
    /\ \E pg \in pages :
        IF pg[1] = <<>>
           THEN /\ phase' = "pages"
                /\ UNCHANGED <<public_id_matches, references_public_ids,
                               downloaded_images>>
           ELSE /\ phase' = "brief"
                /\ public_id_matches' = pg[1]
                /\ references_public_ids' = pg[2]
                /\ downloaded_images' = LoadJournal
    /\ bidx' = 1
    /\ bstage' = "check"
    /\ battempt' = 0
    /\ bchk' = "none"
    /\ breq' = FALSE
    /\ inspiration_count' = 0
    /\ reference_count' = 0
    /\ UNCHANGED <<reqVars, dirVars, campVars, mainVars, retryVars, poolVars, histVars>>

BriefFetch == BriefFetchFrom(BriefPages)

BriefFetchOne == BriefFetchFrom(OneAssetPages)

BriefFetchNone == BriefFetchFrom(NoAssetPages)

\* IsDownloaded when the journal lines are kept with their line ends, so that
\* no id is ever found among them.
IsDownloaded_Never(id) == id \in {}

\* Line 250: is the id in the set loaded from the journal?
IsDownloaded(id) == id \in downloaded_images

\* BriefCheck without the test of line 250: every listed asset is requested.
BriefCheck_NoCheck ==
    /\ phase = "brief" /\ bstage = "check" /\ bidx <= Len(public_id_matches)
    /\ bstage' = "download"
    /\ battempt' = 0
    /\ IF IsReference(public_id_matches[bidx])
          THEN /\ reference_count' = reference_count + 1
               /\ UNCHANGED inspiration_count
          ELSE /\ inspiration_count' = inspiration_count + 1
               /\ UNCHANGED reference_count
    /\ UNCHANGED <<reqVars, dirVars, campVars, phase, mainVars, retryVars, poolVars,
                   public_id_matches, references_public_ids, downloaded_images,
                   bidx, bchk, breq, histVars>>

\* Lines 249-260: the head of one loop iteration.
BriefCheck ==
    /\ phase = "brief" /\ bstage = "check" /\ bidx <= Len(public_id_matches)
    /\ LET id == public_id_matches[bidx] IN
        /\ IF IsDownloaded(id)
              THEN /\ bidx' = bidx + 1
                   /\ UNCHANGED <<bstage, battempt, bchk, inspiration_count,
                                  reference_count>>
              ELSE /\ bstage' = "download"
                   /\ battempt' = 0
                   /\ bchk' = "journal"
                   /\ IF IsReference(id)
                         THEN /\ reference_count' = reference_count + 1
                              /\ UNCHANGED inspiration_count
                         ELSE /\ inspiration_count' = inspiration_count + 1
                              /\ UNCHANGED reference_count
                   /\ UNCHANGED bidx
    /\ UNCHANGED <<reqVars, dirVars, campVars, phase, mainVars, retryVars, poolVars,
                   public_id_matches, references_public_ids, downloaded_images,
                   breq, histVars>>

\* Lines 271-274: the request succeeds and the bytes are written to the file.
BriefDownloadOk ==
    /\ phase = "brief" /\ bstage = "download"
    /\ LET id == public_id_matches[bidx] IN
        /\ refFiles' = [refFiles EXCEPT ![ImgFilename(bidx, id)] = id]
        /\ completed' = completed \cup {BriefAsset(id)}
    /\ bstage' = "mark"
    /\ breq' = TRUE
    /\ UNCHANGED <<reqVars, journal, imgFiles, campVars, phase, mainVars, retryVars, poolVars,
                   public_id_matches, references_public_ids, downloaded_images,
                   bidx, battempt, bchk, inspiration_count, reference_count,
                   run, starts, doneBefore, lastRun, finalSaves, failedUnits>>

\* Lines 279-283: the id is appended to the journal; the loop goes on.
BriefMark ==
    /\ phase = "brief" /\ bstage = "mark"
    /\ journal' = Append(journal, public_id_matches[bidx])
    /\ bidx' = bidx + 1
    /\ bstage' = "check"
    /\ battempt' = 0
    /\ bchk' = "none"
    /\ breq' = FALSE
    /\ UNCHANGED <<reqVars, refFiles, imgFiles, campVars, phase, mainVars, retryVars, poolVars,
                   public_id_matches, references_public_ids, downloaded_images,
                   inspiration_count, reference_count, histVars>>

\* BriefDownloadFail with the journal line written when the asset is given up.
BriefDownloadFail_Marks ==
    /\ phase = "brief" /\ bstage = "download"
    /\ IF battempt < BriefAttempts - 1
          THEN /\ battempt' = battempt + 1
               /\ breq' = TRUE
               /\ UNCHANGED <<journal, bidx, bstage, bchk>>
          ELSE /\ journal' = Append(journal, public_id_matches[bidx])
               /\ bidx' = bidx + 1
               /\ bstage' = "check"
               /\ battempt' = 0
               /\ bchk' = "none"
               /\ breq' = FALSE
    /\ UNCHANGED <<reqVars, refFiles, imgFiles, campVars, phase, mainVars, retryVars, poolVars,
                   public_id_matches, references_public_ids, downloaded_images,
                   inspiration_count, reference_count, histVars>>

\* Lines 285-294: the request fails (safe_request raised); sleep and try
\* again, or give the asset up after the last attempt.
BriefDownloadFail ==
    /\ phase = "brief" /\ bstage = "download"
    /\ IF battempt < BriefAttempts - 1
          THEN /\ battempt' = battempt + 1
               /\ breq' = TRUE
               /\ UNCHANGED <<bidx, bstage, bchk>>
          ELSE /\ bidx' = bidx + 1
               /\ bstage' = "check"
               /\ battempt' = 0
               /\ bchk' = "none"
               /\ breq' = FALSE
    /\ UNCHANGED <<reqVars, dirVars, campVars, phase, mainVars, retryVars, poolVars,
                   public_id_matches, references_public_ids, downloaded_images,
                   inspiration_count, reference_count, histVars>>

\* Line 299: the loop is over; the two counts are returned (the other locals
\* of the call are gone).
BriefReturn ==
    /\ phase = "brief" /\ bstage = "check" /\ bidx > Len(public_id_matches)
    /\ phase' = "pages"
    /\ public_id_matches' = <<>>
    /\ references_public_ids' = None
    /\ downloaded_images' = {}
    /\ bidx' = 1
    /\ UNCHANGED <<reqVars, dirVars, campVars, mainVars, retryVars, poolVars, bstage, battempt,
                   bchk, breq, inspiration_count, reference_count, histVars>>

\* get_brief_info is called again on the same contest by a later run of the
\* pipeline (a whole-unit retry, or a restarted process), wherever the
\* earlier call was when its process stopped.  The files stay as they are.
BriefRestart ==
    /\ run[Cur] < MaxRuns
    /\ run' = [run EXCEPT ![Cur] = @ + 1]
    /\ phase' = "start"
    /\ doneBefore' = RecordedDownloads
    /\ public_id_matches' = <<>>
    /\ references_public_ids' = None
    /\ downloaded_images' = {}
    /\ bidx' = 1
    /\ bstage' = "check"
    /\ battempt' = 0
    /\ bchk' = "none"
    /\ breq' = FALSE
    /\ inspiration_count' = 0
    /\ reference_count' = 0
    /\ UNCHANGED <<reqVars, dirVars, campVars, mainVars, retryVars, poolVars, starts, completed,
                   lastRun, finalSaves, failedUnits>>

\* ------------------------------------------------------- download_images
\* What a listing page can hold: the entry divs found on it (lines 476-483
\* collect them into a set, so none occurs twice on one page; the same entry
\* may be on two pages).
PageContents == {l \in SeqsUpTo(Entries, MaxPerPage) :
                     \A i, j \in DOMAIN l : i # j => l[i] # l[j]}

\* Line 515: data-design-id of the entry div, 0 standing for a missing one.
DesignIdOf(e) == IF e \in NoDesign THEN 0 ELSE 100 + e

\* Lines 579-589: the row of an entry, with the columns that matter here
\* (page is not a column: it tells the occurrences of one entry apart).
Row(e, p) == [ContestID |-> Cur, Entry |-> e, DesignID |-> DesignIdOf(e), page |-> p]

Running == {p \in DOMAIN task : task[p].st \in {"fetch", "entries"}}

\* Lines 450 and 598-600: get_total_pages returns n, and every page number
\* 1..n is submitted to the pool.
GetTotalPagesFrom(counts) ==
    /\ phase = "pages"
    /\ \E n \in counts :
        /\ total_pages' = n
        /\ task' = [p \in 1..MaxPages |->
                       IF p <= n THEN [IdleTask EXCEPT !.st = "queued"] ELSE IdleTask]
    /\ successful_entries' = {}
    /\ csv_data' = <<>>
    /\ phase' = "pool"
    /\ UNCHANGED <<reqVars, dirVars, campVars, mainVars, retryVars, briefVars, histVars>>

\* What the first listing page can hold of the pagination summary: no
\* span of class pagination__summary, one whose text has no 'of <digits>',
\* or one with a total, which the text can give as 0.
ListingPages ==
    {[summary |-> "none", of |-> 0], [summary |-> "no total", of |-> 0]}
    \cup {[summary |-> "total", of |-> n] : n \in 0..MaxPages}

\* Lines 122-135: int(match.group(1)) when the summary has a total, else 1.
get_total_pages(pg) == IF pg.summary = "total" THEN pg.of ELSE 1

GetTotalPages == GetTotalPagesFrom({get_total_pages(pg) : pg \in ListingPages})

GetTotalPagesOne == GetTotalPagesFrom({1})

\* Lines 450 and 598-600 for a listing of up to MaxListed pages, more than
\* the pool has workers.
GetTotalPagesMany ==
    /\ phase = "pages"
    /\ \E n \in 1..MaxListed :
        /\ total_pages' = n
        /\ task' = [p \in 1..n |-> [IdleTask EXCEPT !.st = "queued"]]
    /\ successful_entries' = {}
    /\ csv_data' = <<>>
    /\ phase' = "pool"
    /\ UNCHANGED <<reqVars, dirVars, campVars, mainVars, retryVars, briefVars, histVars>>

\* A pool that starts a queued page whatever the number of running tasks.
TaskStart_Unbounded(p) ==
    /\ phase = "pool" /\ task[p].st = "queued"
    /\ \A q \in 1..(p - 1) : task[q].st # "queued"
    /\ task' = [task EXCEPT ![p].st = "fetch"]
    /\ UNCHANGED <<reqVars, dirVars, campVars, phase, mainVars, retryVars, briefVars, total_pages,
                   successful_entries, csv_data, histVars>>

\* Line 599: ThreadPoolExecutor(max_workers=3).
\* A free worker of the pool takes the next queued page, in submission order.
TaskStart(p) ==
    /\ phase = "pool" /\ task[p].st = "queued"
    /\ Cardinality(Running) < max_workers
    /\ \A q \in 1..(p - 1) : task[q].st # "queued"
    /\ task' = [task EXCEPT ![p].st = "fetch"]
    /\ UNCHANGED <<reqVars, dirVars, campVars, phase, mainVars, retryVars, briefVars, total_pages,
                   successful_entries, csv_data, histVars>>

\* Lines 470-474: safe_request(max_retries=8) raised; the page is skipped.
PageFetchFail(p) ==
    /\ phase = "pool" /\ task[p].st = "fetch"
    /\ task' = [task EXCEPT ![p].st = "done"]
    /\ UNCHANGED <<reqVars, dirVars, campVars, phase, mainVars, retryVars, briefVars, total_pages,
                   successful_entries, csv_data, histVars>>

\* Lines 471-490: the page is fetched and parsed; no entry: return [].
PageFetchOkFrom(p, pages) ==
    /\ phase = "pool" /\ task[p].st = "fetch"
    /\ \E c \in pages :
        task' = [task EXCEPT ![p].st = IF c = <<>> THEN "done" ELSE "entries",
                             ![p].ok = TRUE,
                             ![p].entries = c]
    /\ UNCHANGED <<reqVars, dirVars, campVars, phase, mainVars, retryVars, briefVars, total_pages,
                   successful_entries, csv_data, histVars>>

PageFetchOk(p) == PageFetchOkFrom(p, PageContents)

\* Lines 485-487: a listing page without entry divs.
PageFetchEmpty(p) == PageFetchOkFrom(p, {<<>>})

CurEntry(p) == task[p].entries[task[p].i]

AtEntry(p, stage) ==
    /\ phase = "pool" /\ task[p].st = "entries"
    /\ task[p].i <= Len(task[p].entries)
    /\ task[p].stage = stage

\* The loop of line 492 goes to the next entry; after the last one the page
\* task returns its rows (lines 595-596).
NextEntry(t) ==
    [t EXCEPT !.i = @ + 1, !.stage = "dedup", !.url = FALSE,
              !.chk = "none", !.req = FALSE,
              !.st = IF t.i + 1 > Len(t.entries) THEN "done" ELSE "entries"]

\* Lines 496-499: an entry already in successful_entries is skipped.
EntryDedup(p) ==
    /\ AtEntry(p, "dedup")
    /\ IF CurEntry(p) \in successful_entries
          THEN task' = [task EXCEPT ![p] = NextEntry(@)]
          ELSE task' = [task EXCEPT ![p].stage = "resolve"]
    /\ UNCHANGED <<reqVars, dirVars, campVars, phase, mainVars, retryVars, briefVars, total_pages,
                   successful_entries, csv_data, histVars>>

\* Line 550: does a file of the directory start with <entry>_<user>_entry?
ImageExists(e) == e \in imgFiles

\* Line 518: the profile link of the designer of an entry.  The entries
\* explored are submissions of one designer.
UserOf(e) == "designer"

\* Lines 501-558: the profile and the real image URL are fetched; the URL is
\* resolved or stays 'N/A' / None (no link, a failed fetch, no image tag).
\* With a URL, the download is skipped when the image file is there.
\* Lines 520-532: the profile is fetched unless the designer is in the
\* visited_authors of this page task, and is cached there, fetched or as the
\* placeholder of a failed fetch.
EntryResolve(p) ==
    /\ AtEntry(p, "resolve")
    /\ \E ok \in BOOLEAN :
        LET seen == task[p].visited_authors \cup {UserOf(CurEntry(p))}
        IN IF ok
              THEN task' = [task EXCEPT ![p].url = TRUE,
                                        ![p].chk = "file",
                                        ![p].visited_authors = seen,
                                        ![p].stage = IF ImageExists(CurEntry(p))
                                                        THEN "emit" ELSE "download"]
              ELSE task' = [task EXCEPT ![p].stage = "emit",
                                        ![p].visited_authors = seen]
    /\ UNCHANGED <<reqVars, dirVars, campVars, phase, mainVars, retryVars, briefVars, total_pages,
                   successful_entries, csv_data, histVars>>

\* Lines 559-566: one of the six attempts succeeds (those before it failed
\* and were retried) and the bytes are written to the file.
EntryDownloadOk(p) ==
    /\ AtEntry(p, "download")
    /\ imgFiles' = imgFiles \cup {CurEntry(p)}
    /\ completed' = completed \cup {EntryAsset(CurEntry(p))}
    /\ task' = [task EXCEPT ![p].stage = "emit", ![p].req = TRUE]
    /\ UNCHANGED <<reqVars, journal, refFiles, campVars, phase, mainVars, retryVars, briefVars,
                   total_pages, successful_entries, csv_data,
                   run, starts, doneBefore, lastRun, finalSaves, failedUnits>>

\* A failed download that gives the entry up, without a row.
EntryDownloadFail_Drops(p) ==
    /\ AtEntry(p, "download")
    /\ task' = [task EXCEPT ![p] = NextEntry(@)]
    /\ UNCHANGED <<reqVars, dirVars, campVars, phase, mainVars, retryVars, briefVars, total_pages,
                   successful_entries, csv_data, histVars>>

\* Lines 559-573: open(img_path, 'wb') creates the file and the write of
\* line 562 raises after part of the bytes (or none); the remaining attempts
\* fail at the request. Nothing removes the file: it stays, partially
\* written, and the entry goes on as after a failed download.
EntryDownloadPartial(p) ==
    /\ AtEntry(p, "download")
    /\ imgFiles' = imgFiles \cup {CurEntry(p)}
    /\ task' = [task EXCEPT ![p].stage = "emit", ![p].req = TRUE]
    /\ UNCHANGED <<reqVars, journal, refFiles, campVars, phase, mainVars, retryVars, briefVars,
                   total_pages, successful_entries, csv_data, histVars>>

\* Lines 559-573: every one of the six attempts fails; the failure is logged
\* and the entry goes on without its image.
EntryDownloadFail(p) ==
    /\ AtEntry(p, "download")
    /\ task' = [task EXCEPT ![p].stage = "emit", ![p].req = TRUE]
    /\ UNCHANGED <<reqVars, dirVars, campVars, phase, mainVars, retryVars, briefVars, total_pages,
                   successful_entries, csv_data, histVars>>

\* Lines 575-589: the entry is recorded as processed and its row is emitted.
EntryEmit(p) ==
    /\ AtEntry(p, "emit")
    /\ successful_entries' = successful_entries \cup {CurEntry(p)}
    /\ task' = [task EXCEPT ![p] =
                    NextEntry([@ EXCEPT !.page_data = Append(@, Row(CurEntry(p), p))])]
    /\ UNCHANGED <<reqVars, dirVars, campVars, phase, mainVars, retryVars, briefVars, total_pages,
                   csv_data, histVars>>

\* Collect with csv_data = result in the place of csv_data.extend(result).
Collect_Overwrite(p) ==
    /\ phase = "pool" /\ task[p].st = "done"
    /\ csv_data' = task[p].page_data
    /\ task' = [task EXCEPT ![p].st = "collected"]
    /\ UNCHANGED <<reqVars, dirVars, campVars, phase, mainVars, retryVars, briefVars, total_pages,
                   successful_entries, histVars>>

\* Lines 476-483 and 496, outside the handler of lines 501-593: the parse of
\* the page or the id of an entry div raises (no id, no '-' in it).  The task
\* ends with the exception and its rows are lost with it.
TaskCrash(p) ==
    /\ phase = "pool"
    /\ \/ task[p].st = "fetch"
       \/ AtEntry(p, "dedup")
    /\ task' = [task EXCEPT ![p].st = "done", ![p].raised = TRUE,
                            ![p].ok = FALSE, ![p].page_data = <<>>]
    /\ UNCHANGED <<reqVars, dirVars, campVars, phase, mainVars, retryVars, briefVars, total_pages,
                   successful_entries, csv_data, histVars>>

\* Collect re-raising the exception of a task out of the pool.
Collect_Reraise(p) ==
    /\ phase = "pool" /\ task[p].st = "done"
    /\ csv_data' = IF task[p].raised THEN csv_data ELSE csv_data \o task[p].page_data
    /\ task' = [task EXCEPT ![p].st = "collected"]
    /\ phase' = IF task[p].raised THEN "raised" ELSE phase
    /\ last_error' = IF task[p].raised THEN "ValueError" ELSE last_error
    /\ UNCHANGED <<reqVars, dirVars, campVars, mainVars, attempt, wait_time, briefVars,
                   total_pages, successful_entries, histVars>>

\* Lines 601-607: as_completed hands over a finished task; its rows are
\* appended to csv_data, and the exception of a task is logged.
Collect(p) ==
    /\ phase = "pool" /\ task[p].st = "done"
    /\ csv_data' = IF task[p].raised THEN csv_data ELSE csv_data \o task[p].page_data
    /\ task' = [task EXCEPT ![p].st = "collected"]
    /\ UNCHANGED <<reqVars, dirVars, campVars, phase, mainVars, retryVars, briefVars, total_pages,
                   successful_entries, histVars>>

\* The entries on the pages that were fetched.
FetchedEntries == UNION {Range(task[p].entries) : p \in {q \in 1..total_pages : task[q].ok}}

\* DropDuplicates with keep='last': the last row of each Entry is kept.
RECURSIVE DropDuplicates_KeepLast(_)
DropDuplicates_KeepLast(rows) ==
    IF rows = <<>> THEN <<>>
    ELSE LET back == DropDuplicates_KeepLast(SubSeq(rows, 2, Len(rows)))
             first == rows[1]
         IN IF \E k \in DOMAIN back : back[k].Entry = first.Entry
               THEN back
               ELSE <<first>> \o back

\* df.drop_duplicates(subset=['Entry']): the first row of each Entry is kept.
RECURSIVE DropDuplicates(_)
DropDuplicates(rows) ==
    IF rows = <<>> THEN <<>>
    ELSE LET front == DropDuplicates(SubSeq(rows, 1, Len(rows) - 1))
             last == rows[Len(rows)]
         IN IF \E k \in DOMAIN front : front[k].Entry = last.Entry
               THEN front
               ELSE Append(front, last)

\* Lines 609-627: nothing collected: return without a file; otherwise the
\* deduplicated rows are written as the per-unit dataset.
Aggregate ==
    /\ phase = "pool"
    /\ \A p \in 1..total_pages : task[p].st = "collected"
    /\ csvFile' = IF csv_data = <<>> THEN csvFile
                   ELSE [csvFile EXCEPT ![Cur] = File(DropDuplicates(csv_data))]
    /\ phase' = "returned"
    /\ lastRun' = IF /\ \E p \in 1..total_pages : ~task[p].ok
                      /\ \E e \in FetchedEntries : DesignIdOf(e) # 0
                      THEN [failed |-> TRUE, valid |-> TRUE,
                            n |-> Cardinality(FetchedEntries)]
                      ELSE NoRun
    /\ UNCHANGED <<reqVars, dirVars, progress, aggFile, failFile, mainVars, retryVars, briefVars,
                   poolVars, run, starts, completed, doneBefore, finalSaves, failedUnits>>

PoolStep(p) ==
    \/ TaskStart(p)
    \/ PageFetchFail(p)
    \/ PageFetchOk(p)
    \/ EntryDedup(p)
    \/ EntryResolve(p)
    \/ EntryDownloadOk(p)
    \/ EntryDownloadFail(p)
    \/ EntryEmit(p)
    \/ Collect(p)

\* ---------------------------------------------------------- main_afterpage
\* The locals of download_images and get_brief_info before a call and after it.
FreshLocals ==
    /\ public_id_matches' = <<>>
    /\ references_public_ids' = None
    /\ downloaded_images' = {}
    /\ bidx' = 1
    /\ bstage' = "check"
    /\ battempt' = 0
    /\ bchk' = "none"
    /\ breq' = FALSE
    /\ inspiration_count' = 0
    /\ reference_count' = 0
    /\ total_pages' = 1
    /\ task' = [p \in 1..MaxPages |-> IdleTask]
    /\ successful_entries' = {}
    /\ csv_data' = <<>>

\* download_images is called: its locals are fresh; the files are as they are.
\* limit caps the calls on one contest that are explored.
CallPipelineWithin(limit) ==
    /\ run[Cur] < limit
    /\ run' = [run EXCEPT ![Cur] = @ + 1]
    /\ phase' = "start"
    /\ doneBefore' = RecordedDownloads
    /\ FreshLocals
    /\ UNCHANGED <<starts, completed, lastRun, failedUnits, finalSaves>>

CallPipeline == CallPipelineWithin(MaxRuns)

\* The exceptions a request or the handling of its response can raise, by
\* class: those under requests.exceptions.RequestException (HTTPError comes
\* from raise_for_status, here for a 404 and for a 503; InvalidURL is a
\* malformed request) and one that is not (ValueError).
RequestExceptions == {"HTTPError404", "HTTPError503", "Timeout", "ConnectionError",
                      "ConnectionReset", "InvalidURL"}
ErrorKinds == RequestExceptions \cup {"ValueError"}

\* The exceptions download_images is explored with.
PipelineErrors == {"HTTPError404", "Timeout", "ValueError"}

\* Lines 37-44 of main_afterpage.py: the tuple ends with RequestException,
\* so every class under it is caught as retryable.
unit_retryable_exceptions == RequestExceptions

\* Lines 444-455: get_brief_info or get_total_pages raises (the request
\* failed for good, or the page could not be handled); download_images
\* re-raises.  last_error holds the exception from here on (line 101 or 126
\* assigns it in the handler).
PipelineRaise ==
    /\ phase \in {"start", "pages"}
    /\ \E e \in PipelineErrors : last_error' = e
    /\ phase' = "raised"
    /\ UNCHANGED <<reqVars, dirVars, campVars, mainVars, attempt, wait_time, briefVars,
                   poolVars, histVars>>

\* Lines 75 and 162-166: the rows whose DesignID is there (a missing id and
\* 'N/A' are both read back as NaN).
ValidEntries(rows) == {k \in DOMAIN rows : rows[k].DesignID # 0}

\* DatasetValid asking a design id of every row.
DatasetValid_AllRows(f) ==
    f.exists /\ Len(f.rows) > 0 /\ ValidEntries(f.rows) = DOMAIN f.rows

\* DatasetValid asking only that the file is there.
DatasetValid_Exists(f) == f.exists

\* Lines 69-78: the per-unit dataset exists, has rows and a valid row.
DatasetValid(f) == f.exists /\ Len(f.rows) > 0 /\ ValidEntries(f.rows) # {}

\* Lines 56-59 of main_afterpage.py: the wait before attempt k (k >= 1), in
\* tenths of a second; jitter is ten times the draw of uniform(0.5, 1.5).
base_wait(base, k) ==
    IF base * 2 ^ (k - 1) < max_wait THEN base * 2 ^ (k - 1) ELSE max_wait

WaitTime(base, k, jitter) == (base_wait(base, k) * jitter) \div 10

\* Lines 49-61: the loop goes to its next iteration, which starts with the
\* wait.  The locals of the call of download_images that is over are gone.
NextAttempt ==
    /\ attempt' = attempt + 1
    /\ \E jitter \in WaitJitters : wait_time' = WaitTime(base_delay, attempt', jitter)
    /\ phase' = "wait"
    /\ FreshLocals

\* Lines 66-98 after download_images returned: success on a valid dataset;
\* otherwise an invalid file is removed and the next attempt is due, or the
\* attempts are used up (lines 132-135).
AttemptReturned ==
    /\ phase = "returned"
    /\ IF DatasetValid(csvFile[Cur])
          THEN /\ phase' = "success"
               /\ FreshLocals
               /\ UNCHANGED <<csvFile, retryVars>>
          ELSE /\ csvFile' = IF attempt < max_retries
                                THEN [csvFile EXCEPT ![Cur] = NoFile]
                                ELSE csvFile
               /\ last_error' = "invalid"
               /\ IF attempt < max_retries
                     THEN NextAttempt
                     ELSE /\ phase' = "failure"
                          /\ FreshLocals
                          /\ UNCHANGED <<attempt, wait_time>>
    /\ UNCHANGED <<reqVars, dirVars, progress, aggFile, failFile, mainVars, histVars>>

\* Lines 100-135: a retryable exception: the next attempt is due, or the
\* attempts are used up; any other exception: failure at once.
AttemptRaised ==
    /\ phase = "raised"
    /\ IF last_error \in unit_retryable_exceptions /\ attempt < max_retries
          THEN NextAttempt
          ELSE /\ phase' = "failure"
               /\ FreshLocals
               /\ UNCHANGED <<attempt, wait_time>>
    /\ UNCHANGED <<reqVars, dirVars, campVars, mainVars, last_error, histVars>>

\* Lines 61-64: the wait is over and download_images is called again.  What
\* the earlier attempt left in last_error is not read before the attempt
\* that starts assigns it.
RetryCallWithin(limit) ==
    /\ phase = "wait"
    /\ CallPipelineWithin(limit)
    /\ wait_time' = 0
    /\ last_error' = None
    /\ UNCHANGED <<reqVars, dirVars, campVars, mainVars, attempt>>

RetryCall == RetryCallWithin(MaxRuns)

\* Lines 130 and 135: the error message download_contest_with_retry returns
\* with False.
ErrorMessage(e) ==
    IF e \in unit_retryable_exceptions \cup {"invalid"}
       THEN <<"retries used up", e>>
       ELSE <<"not retryable", e>>

\* contest_completion without the test of the required columns: a file
\* without the DesignID column still fails (the KeyError of df['DesignID'] is
\* caught), one without Entry or UserID passes.
contest_completion_AnyColumns(f) ==
    IF ~f.exists THEN <<FALSE, 0, 0>>
    ELSE IF ~f.readable \/ "DesignID" \notin f.columns THEN <<FALSE, 0, 0>>
    ELSE IF Len(f.rows) > 0 /\ ValidEntries(f.rows) # {}
            THEN <<TRUE, Len(f.rows), Cardinality(ValidEntries(f.rows))>>
            ELSE <<FALSE, Len(f.rows), 0>>

\* Lines 137-176: check_contest_completion on the file f, with its three
\* results (is_complete, entry_count, valid_count).  No file: line 150.  A
\* file read_csv cannot read: the except branch of lines 174-176.  Else the
\* rows are counted, the required columns are asked for, and the rows with
\* a DesignID are counted (read_csv gives NaN, here 0, for an empty cell and
\* for 'N/A').
contest_completion(f) ==
    IF ~f.exists THEN <<FALSE, 0, 0>>
    ELSE IF ~f.readable THEN <<FALSE, 0, 0>>
    ELSE LET entry_count == Len(f.rows)
             valid_count == Cardinality(ValidEntries(f.rows))
         IN IF /\ entry_count > 0
               /\ \A col \in required_columns : col \in f.columns
               /\ valid_count > 0
               THEN <<TRUE, entry_count, valid_count>>
               ELSE <<FALSE, entry_count, 0>>

\* Line 269: is_complete of the dataset of contest c.
check_contest_completion(c) == contest_completion(csvFile[c])[1]

\* Lines 178-184: save_progress.
save_progress(c) == Append(progress, c)

\* Lines 186-195: load_progress.
load_progress == Range(progress)

\* Lines 224-247: the aggregated file, the failure file and the progress
\* file are loaded.
MainStartup ==
    /\ phase = "boot"
    /\ starts' = starts + 1
    /\ all_contests_df' = aggFile.rows
    /\ failed_contests' = <<>>
    /\ failed_df' = failFile.rows
    /\ completed_contests' = load_progress
    /\ successful_downloads' = 0
    /\ failed_downloads' = 0
    /\ skipped_downloads' = 0
    /\ idx' = 1
    /\ attempt' = 0
    /\ last_error' = None
    /\ wait_time' = 0
    /\ phase' = "main"
    /\ UNCHANGED <<reqVars, dirVars, campVars, contests, briefVars, poolVars,
                   run, completed, doneBefore, lastRun, finalSaves, failedUnits>>

\* MainSkip without the count of line 260.
MainSkip_Uncounted ==
    /\ phase = "main" /\ idx <= Len(contests)
    /\ Cur \in completed_contests
    /\ idx' = idx + 1
    /\ UNCHANGED <<reqVars, dirVars, campVars, phase, contests, completed_contests,
                   all_contests_df, failed_contests, failed_df, successful_downloads,
                   failed_downloads, skipped_downloads, retryVars, briefVars, poolVars,
                   histVars>>

\* Lines 258-261: the contest is in the progress ledger: skipped.
MainSkip ==
    /\ phase = "main" /\ idx <= Len(contests)
    /\ Cur \in completed_contests
    /\ skipped_downloads' = skipped_downloads + 1
    /\ idx' = idx + 1
    /\ UNCHANGED <<reqVars, dirVars, campVars, phase, contests, completed_contests,
                   all_contests_df, failed_contests, failed_df, successful_downloads,
                   failed_downloads, retryVars, briefVars, poolVars, histVars>>

\* Checkpoint never saving.
Checkpoint_Never(n, df) == aggFile

\* Lines 283-286 and 320-323: the aggregated data is saved every fifth success.
Checkpoint(n, df) == IF n % CheckpointEvery = 0 THEN File(df) ELSE aggFile

\* Lines 263-288: the per-unit dataset is there and complete: merged directly.
MainMergeExisting ==
    /\ phase = "main" /\ idx <= Len(contests)
    /\ Cur \notin completed_contests
    /\ check_contest_completion(Cur)
    /\ all_contests_df' = all_contests_df \o csvFile[Cur].rows
    /\ progress' = save_progress(Cur)
    /\ successful_downloads' = successful_downloads + 1
    /\ aggFile' = Checkpoint(successful_downloads', all_contests_df')
    /\ idx' = idx + 1
    /\ UNCHANGED <<reqVars, dirVars, csvFile, failFile, phase, contests, completed_contests,
                   failed_contests, failed_df, failed_downloads, skipped_downloads,
                   retryVars, briefVars, poolVars, histVars>>

\* MainDownload without the tests of lines 258 and 269.
MainDownload_Unguarded ==
    /\ phase = "main" /\ idx <= Len(contests)
    /\ attempt' = 0
    /\ last_error' = None
    /\ wait_time' = 0
    /\ CallPipeline
    /\ UNCHANGED <<reqVars, dirVars, campVars, mainVars>>

\* Lines 290-301 and 49-64: download_contest_with_retry is called and makes
\* its first attempt.
MainDownload ==
    /\ phase = "main" /\ idx <= Len(contests)
    /\ Cur \notin completed_contests
    /\ ~check_contest_completion(Cur)
    /\ attempt' = 0
    /\ last_error' = None
    /\ wait_time' = 0
    /\ CallPipeline
    /\ UNCHANGED <<reqVars, dirVars, campVars, mainVars>>

\* Lines 343-352: the buffered failure records are written once there are ten.
FlushFailures(buf) ==
    IF Len(buf) >= FailureFlush
       THEN [buf |-> <<>>, df |-> failed_df \o buf, file |-> File(failed_df \o buf)]
       ELSE [buf |-> buf, df |-> failed_df, file |-> failFile]

\* Lines 303-326 and 343-355: the download succeeded: the dataset is merged,
\* the contest is appended to the progress ledger, the checkpoint is due or not.
\* download_contest_with_retry has returned: its attempt counter is gone.
MainSuccess ==
    /\ phase = "success"
    /\ successful_downloads' = successful_downloads + 1
    /\ IF csvFile[Cur].exists
          THEN /\ all_contests_df' = all_contests_df \o csvFile[Cur].rows
               /\ progress' = save_progress(Cur)
               /\ aggFile' = Checkpoint(successful_downloads', all_contests_df')
          ELSE UNCHANGED <<all_contests_df, progress, aggFile>>
    /\ LET fl == FlushFailures(failed_contests) IN
        /\ failed_contests' = fl.buf
        /\ failed_df' = fl.df
        /\ failFile' = fl.file
    /\ attempt' = 0
    /\ idx' = idx + 1
    /\ phase' = "main"
    /\ UNCHANGED <<reqVars, dirVars, csvFile, contests, completed_contests, failed_downloads,
                   skipped_downloads, last_error, wait_time, briefVars, poolVars, histVars>>

\* Lines 303-326 and 178-184 with an error in the merge: pd.read_csv of line
\* 311 raises, and the handler of line 325 logs it, so that neither the
\* merge nor the ledger append nor the checkpoint happens; or the append of
\* save_progress raises, and save_progress logs it and returns, so that the
\* merge and the checkpoint happen without the ledger line.  The contest
\* was counted at line 304 in both cases.
MainSuccessError ==
    /\ phase = "success"
    /\ csvFile[Cur].exists
    /\ successful_downloads' = successful_downloads + 1
    /\ \E raises \in {"read_csv", "save_progress"} :
          IF raises = "save_progress"
             THEN /\ all_contests_df' = all_contests_df \o csvFile[Cur].rows
                  /\ aggFile' = Checkpoint(successful_downloads', all_contests_df')
             ELSE UNCHANGED <<all_contests_df, aggFile>>
    /\ LET fl == FlushFailures(failed_contests) IN
        /\ failed_contests' = fl.buf
        /\ failed_df' = fl.df
        /\ failFile' = fl.file
    /\ attempt' = 0
    /\ idx' = idx + 1
    /\ phase' = "main"
    /\ UNCHANGED <<reqVars, dirVars, csvFile, progress, contests, completed_contests,
                   failed_downloads, skipped_downloads, last_error, wait_time, briefVars,
                   poolVars, histVars>>

\* Lines 332-338: the record of a failed contest (without the name, the URL
\* and the time, which nothing reads).
failed_contest_info(c, e) == [ContestID |-> c, FailureReason |-> ErrorMessage(e)]

\* MainFailure letting the failure of the contest end the process.
MainFailure_Halt ==
    /\ phase = "failure"
    /\ phase' = "halted"
    /\ UNCHANGED <<reqVars, dirVars, campVars, mainVars, retryVars, briefVars, poolVars,
                   histVars>>

\* Lines 328-355: the download failed: the failure is buffered.  error_message
\* is not read after the record is made.
MainFailure ==
    /\ phase = "failure"
    /\ failed_downloads' = failed_downloads + 1
    /\ LET fl == FlushFailures(Append(failed_contests,
                                      failed_contest_info(Cur, last_error))) IN
        /\ failed_contests' = fl.buf
        /\ failed_df' = fl.df
        /\ failFile' = fl.file
    /\ failedUnits' = failedUnits \cup {Cur}
    /\ last_error' = None
    /\ attempt' = 0
    /\ idx' = idx + 1
    /\ phase' = "main"
    /\ UNCHANGED <<reqVars, dirVars, csvFile, progress, aggFile, contests, completed_contests,
                   all_contests_df, successful_downloads, skipped_downloads,
                   wait_time, briefVars, poolVars, run, starts, completed,
                   doneBefore, lastRun, finalSaves>>

\* drop_duplicates with keep='last'.
DropDuplicateDesigns_KeepLast(rows) ==
    LET kept == {k \in DOMAIN rows :
                    \A j \in (k + 1)..Len(rows) : rows[j].DesignID # rows[k].DesignID}
    IN [p \in 1..Cardinality(kept) |->
           rows[CHOOSE k \in kept : Cardinality({j \in kept : j <= k}) = p]]

\* drop_duplicates(subset='DesignID', keep='first').
\* A row is kept when no row before it has its DesignID; the rows kept keep
\* their order.
DropDuplicateDesigns(rows) ==
    LET kept == {k \in DOMAIN rows :
                    \A j \in 1..(k - 1) : rows[j].DesignID # rows[k].DesignID}
    IN [p \in 1..Cardinality(kept) |->
           rows[CHOOSE k \in kept : Cardinality({j \in kept : j <= k}) = p]]

\* Does row a come before row b in the final order: ContestID descending,
\* then Entry descending?
Before(a, b) ==
    \/ a.ContestID > b.ContestID
    \/ a.ContestID = b.ContestID /\ a.Entry > b.Entry

\* sort_values(by=['ContestID', 'Entry'], ascending=[False, False]): rows
\* that tie keep their order.  The place of a row is one more than the
\* number of rows that come before it or tie with it from an earlier place.
SortRows(rows) ==
    LET place(i) == 1 + Cardinality({j \in DOMAIN rows :
                                        \/ Before(rows[j], rows[i])
                                        \/ ~Before(rows[i], rows[j]) /\ j < i})
    IN [p \in 1..Len(rows) |-> rows[CHOOSE i \in DOMAIN rows : place(i) = p]]

\* Lines 357-388: the loop is over: the buffered failure records are written,
\* the aggregated data is deduplicated, sorted and written.
MainFinal ==
    /\ phase = "main" /\ idx > Len(contests)
    /\ IF failed_contests # <<>>
          THEN /\ failed_df' = failed_df \o failed_contests
               /\ failFile' = File(failed_df \o failed_contests)
          ELSE UNCHANGED <<failed_df, failFile>>
    /\ IF all_contests_df # <<>>
          THEN /\ all_contests_df' = SortRows(DropDuplicateDesigns(all_contests_df))
               /\ aggFile' = File(SortRows(DropDuplicateDesigns(all_contests_df)))
          ELSE UNCHANGED <<all_contests_df, aggFile>>
    /\ finalSaves' = finalSaves + 1
    /\ phase' = "ended"
    /\ UNCHANGED <<reqVars, dirVars, csvFile, progress, contests, idx, completed_contests,
                   failed_contests, successful_downloads, failed_downloads,
                   skipped_downloads, retryVars, briefVars, poolVars,
                   run, starts, completed, doneBefore, lastRun, failedUnits>>

\* Lines 408-412: an interrupt (KeyboardInterrupt) while main runs leaves
\* main at once; it is caught outside main and logged, and the process ends.
\* What the process held in memory is gone.
Interrupt ==
    /\ phase \notin {"boot", "ended", "interrupted"}
    /\ phase' = "interrupted"
    /\ idx' = 1
    /\ completed_contests' = {}
    /\ all_contests_df' = <<>>
    /\ failed_contests' = <<>>
    /\ failed_df' = <<>>
    /\ successful_downloads' = 0
    /\ failed_downloads' = 0
    /\ skipped_downloads' = 0
    /\ attempt' = 0
    /\ last_error' = None
    /\ wait_time' = 0
    /\ FreshLocals
    /\ UNCHANGED <<reqVars, dirVars, campVars, contests, histVars>>

\* Lines 383-385 and 408-412: the interrupt comes, or the process is killed,
\* while to_csv writes the final aggregated file.  to_csv opens the path for
\* writing, which empties the file, and writes the rows in order; nothing
\* is written to a temporary file and renamed.  The file is left with the
\* first n rows.  The failure records were written before (lines 357-365).
InterruptInFinalSave ==
    /\ phase = "main" /\ idx > Len(contests)
    /\ all_contests_df # <<>>
    /\ failFile' = IF failed_contests # <<>>
                      THEN File(failed_df \o failed_contests) ELSE failFile
    /\ LET rows == SortRows(DropDuplicateDesigns(all_contests_df))
       IN \E n \in 0..(Len(rows) - 1) :
              aggFile' = [File(SubSeq(rows, 1, n)) EXCEPT !.torn = TRUE]
    /\ phase' = "interrupted"
    /\ idx' = 1
    /\ completed_contests' = {}
    /\ all_contests_df' = <<>>
    /\ failed_contests' = <<>>
    /\ failed_df' = <<>>
    /\ successful_downloads' = 0
    /\ failed_downloads' = 0
    /\ skipped_downloads' = 0
    /\ attempt' = 0
    /\ last_error' = None
    /\ wait_time' = 0
    /\ FreshLocals
    /\ UNCHANGED <<reqVars, dirVars, csvFile, progress, contests, histVars>>

\* The campaign is started again after its process ended or was interrupted.
MainRestart ==
    /\ phase \in {"ended", "interrupted"}
    /\ starts < MaxStarts
    /\ phase' = "boot"
    /\ UNCHANGED <<reqVars, dirVars, campVars, mainVars, retryVars, briefVars, poolVars, histVars>>

\* The pipeline of a contest with all its attempts, taken as one step: it
\* ends with a valid per-unit dataset written and success reported, or with
\* failure reported.
ContestRows(c) == <<[ContestID |-> c, Entry |-> 2, DesignID |-> 100 * c + 2, page |-> 1],
                    [ContestID |-> c, Entry |-> 1, DesignID |-> 100 * c + 1, page |-> 1]>>

PipelineAsOneStep ==
    /\ phase = "start"
    /\ \/ /\ csvFile' = [csvFile EXCEPT ![Cur] = File(ContestRows(Cur))]
          /\ phase' = "success"
          /\ UNCHANGED last_error
       \/ /\ phase' = "failure"
          /\ \E e \in {"Timeout", "ValueError"} : last_error' = e
          /\ UNCHANGED csvFile
    /\ UNCHANGED <<reqVars, dirVars, progress, aggFile, failFile, mainVars, attempt, wait_time,
                   briefVars, poolVars, histVars>>

\* ------------------------------------------------------------ safe_request
\* Lines 45-54 of Crawl99designEntry.py: the tuple ends with RequestException,
\* so every class under it is caught as retryable.
retryable_exceptions == RequestExceptions

\* Lines 60-61: the delay slept before attempt k (k >= 1), in tenths of a
\* second; jitter is ten times the draw of uniform(0.5, 1.5).
Backoff_NoCap(base, k, jitter) == base * 2 ^ (k - 1) + jitter

Backoff(base, k, jitter) ==
    LET delay == base * 2 ^ (k - 1) + jitter
    IN IF delay < max_delay THEN delay ELSE max_delay

\* Line 78: is this the last attempt of the loop?
IsLastAttempt_Always(k, n) == TRUE

IsLastAttempt(k, n) == k = n - 1

\* Lines 56-63: an iteration of the loop starts: but for the first, the
\* backoff delay is slept.
SrIterate ==
    /\ sr_pc = "loop"
    /\ sr_attempt < sr_max_retries
    /\ IF sr_attempt > 0
          THEN /\ \E jitter \in DelayJitters :
                    sr_delay' = Backoff(sr_base_delay, sr_attempt, jitter)
               /\ sr_sleeps' = sr_sleeps + 1
          ELSE UNCHANGED <<sr_delay, sr_sleeps>>
    /\ sr_pc' = "get"
    /\ UNCHANGED <<sr_max_retries, sr_base_delay, sr_attempt, sr_raised, sr_gets, sr_failures,
                   dirVars, campVars, phase, mainVars, retryVars, briefVars, poolVars,
                   histVars>>

\* Lines 65-67: session.get answers and raise_for_status passes: the
\* response is returned.
SrGetOk ==
    /\ sr_pc = "get"
    /\ sr_gets' = sr_gets + 1
    /\ sr_pc' = "returned"
    /\ UNCHANGED <<sr_max_retries, sr_base_delay, sr_attempt, sr_delay, sr_raised, sr_sleeps,
                   sr_failures, dirVars, campVars, phase, mainVars, retryVars, briefVars,
                   poolVars, histVars>>

\* Lines 65-66: session.get or raise_for_status raises.
SrGetFail ==
    /\ sr_pc = "get"
    /\ sr_gets' = sr_gets + 1
    /\ \E e \in ErrorKinds : sr_failures' = Append(sr_failures, e)
    /\ sr_pc' = "except"
    /\ UNCHANGED <<sr_max_retries, sr_base_delay, sr_attempt, sr_delay, sr_raised, sr_sleeps,
                   dirVars, campVars, phase, mainVars, retryVars, briefVars, poolVars,
                   histVars>>

\* Lines 69-83: the handlers.  A retryable exception: after a connection
\* reset 3 to 8 seconds more are slept; it is raised again on the last
\* attempt, and the loop goes on otherwise.  Any other exception is raised again.
SrExcept ==
    /\ sr_pc = "except"
    /\ LET e == sr_failures[Len(sr_failures)] IN
         IF e \in retryable_exceptions
            THEN /\ IF e = "ConnectionReset"
                       THEN /\ \E d \in ResetDelays : sr_delay' = d
                            /\ sr_sleeps' = sr_sleeps + 1
                       ELSE UNCHANGED <<sr_delay, sr_sleeps>>
                 /\ IF IsLastAttempt(sr_attempt, sr_max_retries)
                       THEN /\ sr_pc' = "raised"
                            /\ sr_raised' = e
                            /\ UNCHANGED sr_attempt
                       ELSE /\ sr_pc' = "loop"
                            /\ sr_attempt' = sr_attempt + 1
                            /\ UNCHANGED sr_raised
            ELSE /\ sr_pc' = "raised"
                 /\ sr_raised' = e
                 /\ UNCHANGED <<sr_attempt, sr_delay, sr_sleeps>>
    /\ UNCHANGED <<sr_max_retries, sr_base_delay, sr_gets, sr_failures,
                   dirVars, campVars, phase, mainVars, retryVars, briefVars, poolVars,
                   histVars>>

\* Line 85: the loop is over without a return or a raise.
SrExhausted ==
    /\ sr_pc = "loop"
    /\ sr_attempt >= sr_max_retries
    /\ sr_pc' = "raised"
    /\ sr_raised' = "RequestException"
    /\ UNCHANGED <<sr_max_retries, sr_base_delay, sr_attempt, sr_delay, sr_gets, sr_sleeps,
                   sr_failures, dirVars, campVars, phase, mainVars, retryVars, briefVars,
                   poolVars, histVars>>

\* One call of download_images taken as one step, inside the retry loop of
\* download_contest_with_retry: it returns with a dataset that has a design
\* id, with one that has none, or without one (lines 609-611), or it raises.
AttemptAsOneStep ==
    /\ phase = "start"
    /\ \/ /\ csvFile' = [csvFile EXCEPT ![Cur] = File(ContestRows(Cur))]
          /\ phase' = "returned"
          /\ UNCHANGED last_error
       \/ /\ csvFile' = [csvFile EXCEPT ![Cur] =
                             File(<<[ContestID |-> Cur, Entry |-> 2, DesignID |-> 0, page |-> 1]>>)]
          /\ phase' = "returned"
          /\ UNCHANGED last_error
       \/ /\ phase' = "returned"
          /\ UNCHANGED <<csvFile, last_error>>
       \/ /\ phase' = "raised"
          /\ \E e \in PipelineErrors : last_error' = e
          /\ UNCHANGED csvFile
    /\ UNCHANGED <<reqVars, dirVars, progress, aggFile, failFile, mainVars, attempt, wait_time,
                   briefVars, poolVars, histVars>>

\* The wait is over: the next call, with every attempt of the loop explored.
\* The history of the calls records the first call of a contest only.
RetryCallAll ==
    /\ phase = "wait"
    /\ phase' = "start"
    /\ FreshLocals
    /\ wait_time' = 0
    /\ last_error' = None
    /\ UNCHANGED <<reqVars, dirVars, campVars, mainVars, attempt, histVars>>

\* ---------------------------------------------------------------- main_brief
\* Line 43 of main_brief.py: the wait after the failed attempt k (k >= 0) of
\* download_with_retry, in tenths of a second.
brief_delay(base, k) == base * 2 ^ k

\* Lines 100-133 of main_brief.py: the head of one iteration of main.  The
\* per-unit dataset is there: it is merged and counted as a success;
\* otherwise download_with_retry is called.
BmNext ==
    /\ phase = "b_main" /\ idx <= Len(contests)
    /\ IF csvFile[Cur].exists
          THEN /\ all_contests_df' = all_contests_df \o csvFile[Cur].rows
               /\ successful_downloads' = successful_downloads + 1
               /\ idx' = idx + 1
               /\ UNCHANGED <<phase, run>>
          ELSE /\ phase' = "b_loop"
               /\ run' = [run EXCEPT ![Cur] = 1]
               /\ UNCHANGED <<all_contests_df, successful_downloads, idx>>
    /\ attempt' = 0
    /\ wait_time' = 0
    /\ last_error' = None
    /\ UNCHANGED <<reqVars, dirVars, campVars, contests, completed_contests, failed_contests,
                   failed_df, failed_downloads, skipped_downloads, briefVars, poolVars,
                   starts, completed, doneBefore, lastRun, failedUnits, finalSaves>>

\* Lines 33-59 of main_brief.py, one iteration of download_with_retry, with
\* lines 143-178 of Ongoing_Crawl99designBrief.py: download_brief writes the
\* per-unit dataset and returns; or its brief fetch fails with SSLError
\* fifteen times and it returns without writing (line 155); or it raises.
\* Whenever it returns, True is returned.  On ProxyError, ConnectionError or
\* Timeout the loop waits and goes on, or returns False after the last
\* attempt; on any other exception it returns False at once.
BmAttempt ==
    /\ phase = "b_loop"
    /\ \/ /\ csvFile' = [csvFile EXCEPT ![Cur] =
                             File(<<[ContestID |-> Cur, Inspiration |-> 0, Reference |-> 0]>>)]
          /\ phase' = "b_true"
          /\ UNCHANGED retryVars
       \/ /\ phase' = "b_true"
          /\ UNCHANGED <<csvFile, retryVars>>
       \/ /\ \E e \in {"Timeout", "ValueError"} :
                /\ last_error' = e
                /\ IF e \in {"ProxyError", "ConnectionError", "Timeout"} /\ attempt < max_retries
                      THEN /\ wait_time' = brief_delay(base_delay, attempt)
                           /\ attempt' = attempt + 1
                           /\ UNCHANGED phase
                      ELSE /\ phase' = "b_false"
                           /\ UNCHANGED <<attempt, wait_time>>
          /\ UNCHANGED csvFile
    /\ UNCHANGED <<reqVars, dirVars, progress, aggFile, failFile, mainVars, briefVars, poolVars,
                   histVars>>

\* Lines 135-162 of main_brief.py: True: the contest is counted as a success
\* and its dataset, if there is one, is merged and the aggregated file
\* saved; False: it is counted as failed and recorded.  The failure records
\* are written at every tenth contest.
BmResult ==
    /\ phase \in {"b_true", "b_false"}
    /\ IF phase = "b_true"
          THEN /\ successful_downloads' = successful_downloads + 1
               /\ IF csvFile[Cur].exists
                     THEN /\ all_contests_df' = all_contests_df \o csvFile[Cur].rows
                          /\ aggFile' = File(all_contests_df')
                     ELSE UNCHANGED <<all_contests_df, aggFile>>
               /\ UNCHANGED <<failed_downloads, failed_contests, failed_df, failFile,
                              failedUnits>>
          ELSE /\ failed_downloads' = failed_downloads + 1
               /\ LET buf == Append(failed_contests,
                                    [ContestID |-> Cur,
                                     FailureReason |-> "Max retries exceeded"])
                  IN IF idx % FailureFlush = 0
                        THEN /\ failed_contests' = <<>>
                             /\ failed_df' = failed_df \o buf
                             /\ failFile' = File(failed_df')
                        ELSE /\ failed_contests' = buf
                             /\ UNCHANGED <<failed_df, failFile>>
               /\ failedUnits' = failedUnits \cup {Cur}
               /\ UNCHANGED <<successful_downloads, all_contests_df, aggFile>>
    /\ idx' = idx + 1
    /\ phase' = "b_main"
    /\ UNCHANGED <<reqVars, dirVars, csvFile, progress, contests, completed_contests,
                   skipped_downloads, retryVars, briefVars, poolVars,
                   run, starts, completed, doneBefore, lastRun, finalSaves>>

\* ----------------------------------------------------------- specifications
InitDisk ==
    /\ journal = <<>>
    /\ refFiles = [n \in RefNames |-> None]
    /\ imgFiles = {}
    /\ csvFile = [c \in 1..NumContests |-> NoFile]
    /\ progress = <<>>
    /\ aggFile = NoFile
    /\ failFile = NoFile

InitMemory ==
    /\ idx = 1
    /\ completed_contests = {}
    /\ all_contests_df = <<>>
    /\ failed_contests = <<>>
    /\ failed_df = <<>>
    /\ successful_downloads = 0
    /\ failed_downloads = 0
    /\ skipped_downloads = 0
    /\ attempt = 0
    /\ last_error = None
    /\ wait_time = 0
    /\ public_id_matches = <<>>
    /\ references_public_ids = None
    /\ downloaded_images = {}
    /\ bidx = 1
    /\ bstage = "check"
    /\ battempt = 0
    /\ bchk = "none"
    /\ breq = FALSE
    /\ inspiration_count = 0
    /\ reference_count = 0
    /\ total_pages = 1
    /\ task = [p \in 1..MaxPages |-> IdleTask]
    /\ successful_entries = {}
    /\ csv_data = <<>>

InitHistory ==
    /\ starts = 0
    /\ completed = {}
    /\ doneBefore = {}
    /\ lastRun = NoRun
    /\ failedUnits = {}
    /\ finalSaves = 0

\* No call of safe_request is followed step by step.
InitNoRequest ==
    /\ sr_max_retries = 0
    /\ sr_base_delay = 0
    /\ sr_attempt = 0
    /\ sr_pc = "idle"
    /\ sr_delay = 0
    /\ sr_raised = None
    /\ sr_gets = 0
    /\ sr_sleeps = 0
    /\ sr_failures = <<>>

\* get_brief_info alone: its first call on a contest is about to fetch the page.
InitBrief ==
    /\ InitDisk /\ InitMemory /\ InitHistory /\ InitNoRequest
    /\ contests = <<1>>
    /\ phase = "start"
    /\ run = [c \in 1..NumContests |-> IF c = 1 THEN 1 ELSE 0]

NextBrief ==
    \/ BriefFetch
    \/ BriefCheck
    \/ BriefDownloadOk
    \/ BriefMark
    \/ BriefDownloadFail
    \/ BriefReturn
    \/ BriefRestart

SpecBrief == InitBrief /\ [][NextBrief]_vars

\* main on a list of one contest.
InitUnit ==
    /\ InitDisk /\ InitMemory /\ InitHistory /\ InitNoRequest
    /\ contests = <<1>>
    /\ phase = "boot"
    /\ run = [c \in 1..NumContests |-> 0]

MainStep ==
    \/ MainStartup
    \/ MainSkip
    \/ MainMergeExisting
    \/ MainDownload
    \/ MainSuccess
    \/ MainFailure
    \/ MainFinal

PoolNext ==
    \/ PipelineRaise
    \/ \E p \in 1..MaxPages : PoolStep(p)
    \/ Aggregate
    \/ AttemptReturned
    \/ AttemptRaised
    \/ RetryCall

\* One process without interrupts; the brief has no assets.
NextPool ==
    \/ MainStartup
    \/ MainDownload
    \/ MainSuccess
    \/ MainFailure
    \/ MainFinal
    \/ BriefFetchNone
    \/ GetTotalPages
    \/ PoolNext

SpecPool == InitUnit /\ [][NextPool]_vars

\* Processes, interrupts and restarts; briefs of at most one asset and
\* listings of one page.
Next ==
    \/ MainStep
    \/ Interrupt
    \/ MainRestart
    \/ BriefFetchOne
    \/ BriefCheck
    \/ BriefDownloadOk
    \/ BriefMark
    \/ BriefDownloadFail
    \/ BriefReturn
    \/ GetTotalPagesOne
    \/ PoolNext

Spec == InitUnit /\ [][Next]_vars

\* main on a list of NumContests contests.
InitCampaign ==
    /\ InitDisk /\ InitMemory /\ InitHistory /\ InitNoRequest
    /\ contests = [k \in 1..NumContests |-> k]
    /\ phase = "boot"
    /\ run = [c \in 1..NumContests |-> 0]

NextCampaign ==
    \/ MainStep
    \/ Interrupt
    \/ MainRestart
    \/ PipelineAsOneStep

SpecCampaign == InitCampaign /\ [][NextCampaign]_vars

\* The campaign with merges and ledger appends that can raise.
NextLedger ==
    \/ NextCampaign
    \/ MainSuccessError

SpecLedger == InitCampaign /\ [][NextLedger]_vars

\* main in one process without interrupts, on NumContests contests, with the
\* whole retry loop of each contest; an earlier process may have left contest
\* 1 in the progress ledger and the dataset of contest 2 on disk.
InitRetry ==
    /\ InitMemory /\ InitHistory /\ InitNoRequest
    /\ refFiles = [n \in RefNames |-> None]
    /\ journal = <<>>
    /\ imgFiles = {}
    /\ failFile = NoFile
    /\ \E done \in SUBSET {1}, have \in SUBSET {2} :
          /\ progress = IF 1 \in done THEN <<1>> ELSE <<>>
          /\ csvFile = [c \in 1..NumContests |->
                           IF c \in done \cup have THEN File(ContestRows(c)) ELSE NoFile]
          /\ aggFile = IF 1 \in done THEN File(SortRows(ContestRows(1))) ELSE NoFile
    /\ contests = [k \in 1..NumContests |-> k]
    /\ phase = "boot"
    /\ run = [c \in 1..NumContests |-> 0]

NextRetry ==
    \/ MainStep
    \/ AttemptAsOneStep
    \/ AttemptReturned
    \/ AttemptRaised
    \/ RetryCallAll

SpecRetry == InitRetry /\ [][NextRetry]_vars

\* The process is not stopped from outside: a step that can be taken is taken
\* (the waits are finite sleeps and the pipeline call returns or raises).
SpecRetryFair == SpecRetry /\ WF_vars(NextRetry)

\* One call of safe_request, with max_retries and base_delay of any value.
InitRequest ==
    /\ InitDisk /\ InitMemory /\ InitHistory
    /\ contests = <<1>>
    /\ phase = "request"
    /\ run = [c \in 1..NumContests |-> 0]
    /\ sr_max_retries \in 0..MaxTries
    /\ sr_base_delay \in BaseDelays
    /\ sr_attempt = 0
    /\ sr_pc = "loop"
    /\ sr_delay = 0
    /\ sr_raised = None
    /\ sr_gets = 0
    /\ sr_sleeps = 0
    /\ sr_failures = <<>>

NextRequest ==
    \/ SrIterate
    \/ SrGetOk
    \/ SrGetFail
    \/ SrExcept
    \/ SrExhausted

SpecRequest == InitRequest /\ [][NextRequest]_vars

\* main in one process without interrupts on NumUnits contests, the pipeline
\* as one step; an earlier process may have left contest 1 in the progress
\* ledger and in the aggregated file, and the dataset of contest 2 on disk.
InitLong ==
    /\ InitMemory /\ InitHistory /\ InitNoRequest
    /\ refFiles = [n \in RefNames |-> None]
    /\ journal = <<>>
    /\ imgFiles = {}
    /\ failFile = NoFile
    /\ \E done \in SUBSET {1}, have \in SUBSET {2} :
          /\ progress = IF 1 \in done THEN <<1>> ELSE <<>>
          /\ csvFile = [c \in 1..NumUnits |->
                           IF c \in done \cup have THEN File(ContestRows(c)) ELSE NoFile]
          /\ aggFile = IF 1 \in done THEN File(SortRows(ContestRows(1))) ELSE NoFile
    /\ contests = [k \in 1..NumUnits |-> k]
    /\ phase = "boot"
    /\ run = [c \in 1..NumUnits |-> 0]

NextLong ==
    \/ MainStep
    \/ PipelineAsOneStep

SpecLong == InitLong /\ [][NextLong]_vars

\* The per-unit datasets an earlier process can have left for a contest:
\* none, or rows of different entries in any order (download_images drops
\* the duplicates of Entry and does not sort), each with its design id or
\* without one (0).
WrittenDatasetsOf(c) ==
    UNION {{File([k \in DOMAIN l |->
                    [ContestID |-> c, Entry |-> l[k],
                     DesignID |-> IF l[k] \in nd THEN 0 ELSE 100 * c + l[k], page |-> 1]]) :
               nd \in SUBSET Entries} : l \in PageContents \ {<<>>}}

\* What can be found at the path of the dataset of a contest: no file, a
\* dataset as written, a file of the header alone, and a dataset with rows
\* that was damaged (read_csv raises on it) or has lost some of the required
\* columns.
DatasetsOf(c) ==
    {NoFile, File(<<>>)} \cup WrittenDatasetsOf(c)
    \cup {[File(ContestRows(c)) EXCEPT !.readable = FALSE]}
    \cup {[File(ContestRows(c)) EXCEPT !.columns = cols \cup {"ContestID"}] :
              cols \in SUBSET required_columns}

\* main in one process without interrupts on NumContests contests, started
\* with an empty progress ledger and with datasets of any content on disk
\* for contests 1 and 2.
InitFinal ==
    /\ InitMemory /\ InitHistory /\ InitNoRequest
    /\ refFiles = [n \in RefNames |-> None]
    /\ journal = <<>>
    /\ imgFiles = {}
    /\ failFile = NoFile
    /\ progress = <<>>
    /\ aggFile = NoFile
    /\ \E d1 \in DatasetsOf(1), d2 \in DatasetsOf(2) :
          csvFile = [c \in 1..NumContests |->
                        IF c = 1 THEN d1 ELSE IF c = 2 THEN d2 ELSE NoFile]
    /\ contests = [k \in 1..NumContests |-> k]
    /\ phase = "boot"
    /\ run = [c \in 1..NumContests |-> 0]

\* With an empty ledger and one process no contest is skipped.
NextFinal ==
    \/ MainStartup
    \/ MainMergeExisting
    \/ MainDownload
    \/ MainSuccess
    \/ MainFailure
    \/ MainFinal
    \/ PipelineAsOneStep

SpecFinal == InitFinal /\ [][NextFinal]_vars

\* main on NumContests contests, with datasets of any content on disk for
\* contests 1 and 2, where the interrupt or the kill comes during the final
\* save and the campaign is started again.
NextTorn ==
    \/ MainStep
    \/ InterruptInFinalSave
    \/ MainRestart
    \/ PipelineAsOneStep

SpecTorn == InitFinal /\ [][NextTorn]_vars

\* The page pool of one call of download_images, from the page count to the
\* aggregation, with page tasks that can end with an exception.
InitTasks ==
    /\ InitDisk /\ InitMemory /\ InitHistory /\ InitNoRequest
    /\ contests = <<1>>
    /\ phase = "pages"
    /\ run = [c \in 1..NumContests |-> IF c = 1 THEN 1 ELSE 0]

NextTasks ==
    \/ GetTotalPages
    \/ \E p \in 1..MaxPages : PoolStep(p)
    \/ \E p \in 1..MaxPages : TaskCrash(p)
    \/ Aggregate

SpecTasks == InitTasks /\ [][NextTasks]_vars

\* One process whose image writes can fail part-way.
NextPartial ==
    \/ NextPool
    \/ \E p \in 1..MaxPages : EntryDownloadPartial(p)

SpecPartial == InitUnit /\ [][NextPartial]_vars

\* The scheduling of the pool on a listing of more pages than workers; the
\* pages fail or hold no entry.
NextSched ==
    \/ GetTotalPagesMany
    \/ \E p \in DOMAIN task : \/ TaskStart(p)
                              \/ PageFetchFail(p)
                              \/ PageFetchEmpty(p)
                              \/ Collect(p)
    \/ Aggregate

SpecSched == InitTasks /\ [][NextSched]_vars

\* The loop of main of main_brief.py over NumContests contests; the dataset
\* of contest 1 may be there from an earlier process.
InitBm ==
    /\ InitMemory /\ InitHistory /\ InitNoRequest
    /\ journal = <<>>
    /\ refFiles = [n \in RefNames |-> None]
    /\ imgFiles = {}
    /\ progress = <<>>
    /\ aggFile = NoFile
    /\ failFile = NoFile
    /\ \E have \in SUBSET {1} :
          csvFile = [c \in 1..NumContests |->
                        IF c \in have
                           THEN File(<<[ContestID |-> c, Inspiration |-> 0, Reference |-> 0]>>)
                           ELSE NoFile]
    /\ contests = [k \in 1..NumContests |-> k]
    /\ phase = "b_main"
    /\ run = [c \in 1..NumContests |-> 0]

NextBm ==
    \/ BmNext
    \/ BmAttempt
    \/ BmResult

SpecBm == InitBm /\ [][NextBm]_vars

\* ------------------------------------------------------------------ claims
\* The pages of the current call whose fetch failed all its retries, and the
\* rows of the per-unit dataset of the contest.
FailedPages == {p \in 1..total_pages : task[p].st \in {"done", "collected"} /\ ~task[p].ok}
DatasetRows == csvFile[Cur].rows
RowsOf(rows, e) == {k \in DOMAIN rows : rows[k].Entry = e}

\* C1: a page whose fetch fails all its retries makes its task return no
\* rows, without raising; the pool runs to its aggregation, and the per-unit
\* dataset then holds a row for every entry found on the other pages.
C1_PartialFailureIsolation ==
    /\ \A p \in FailedPages : task[p].page_data = <<>>
    /\ (phase = "returned" /\ FailedPages # {}) =>
           \A e \in FetchedEntries : csvFile[Cur].exists /\ RowsOf(DatasetRows, e) # {}

C1_Witness ==
    /\ phase = "returned" /\ total_pages = 2
    /\ FailedPages # {}
    /\ FetchedEntries # {}
    /\ csvFile[Cur].exists

OnPages(e) == {p \in 1..total_pages : task[p].ok /\ e \in Range(task[p].entries)}
FirstOf(rows, e) == CHOOSE k \in RowsOf(rows, e) : \A j \in RowsOf(rows, e) : k <= j

C3_FirstOccurrenceKept ==
    phase = "returned" =>
        \A e \in Entries : Cardinality(OnPages(e)) >= 2 =>
            /\ csvFile[Cur].exists
            /\ Cardinality(RowsOf(DatasetRows, e)) = 1
            /\ RowsOf(csv_data, e) # {}
            /\ \A k \in RowsOf(DatasetRows, e) :
                   DatasetRows[k] = csv_data[FirstOf(csv_data, e)]

C3_Witness ==
    /\ phase = "returned"
    /\ \E e \in Entries :
          /\ Cardinality(OnPages(e)) = 2
          /\ Cardinality(RowsOf(csv_data, e)) = 2
          /\ Cardinality(RowsOf(DatasetRows, e)) = 1

\* The page tasks that issued a download request for the entry they are at.
Requesting == {p \in 1..MaxPages : task[p].req}

\* C4: a call of the pipeline on a contest crawled before issues no download
\* request for a brief asset whose id was in the journal, nor for an entry
\* whose image file was there, when the call began.
C4_NoRedownload ==
    /\ breq => BriefAsset(public_id_matches[bidx]) \notin doneBefore
    /\ \A p \in Requesting : EntryAsset(CurEntry(p)) \notin doneBefore

C4_Witness ==
    /\ run[1] = 2
    /\ \E id \in Assets : BriefAsset(id) \in doneBefore
    /\ \E p \in 1..MaxPages :
          /\ AtEntry(p, "emit")
          /\ EntryAsset(CurEntry(p)) \in doneBefore
          /\ task[p].chk = "file" /\ ~task[p].req

\* C5: for every asset the already-downloaded check comes before the
\* download request, and the asset is recorded as downloaded (its journal
\* line, its image file) only once its bytes were written.
C5_CheckRequestMark ==
    /\ breq => bchk # "none"
    /\ \A p \in Requesting : task[p].chk # "none"
    /\ (phase = "brief" /\ bstage = "mark") =>
           refFiles[ImgFilename(bidx, public_id_matches[bidx])] = public_id_matches[bidx]
    /\ RecordedDownloads \subseteq completed

C5_Witness ==
    /\ journal # <<>>
    /\ \E p \in Requesting : EntryAsset(CurEntry(p)) \in completed

\* The assets the journal records.
Journalled == {BriefAsset(id) : id \in Range(journal)}

C6_JournalImpliesFile ==
    \A id \in Range(journal) : \E n \in RefNames : refFiles[n] = id

\* The journal lines that hold the id.
JournalLines(id) == {k \in DOMAIN journal : journal[k] = id}

\* C8: the journal never holds the same id twice, whatever the failed
\* attempts before a download succeeds and also when the brief page lists an
\* id more than once; an id in the journal has its file.
C8_OneJournalLine ==
    \A id \in Assets :
        /\ Cardinality(JournalLines(id)) <= 1
        /\ JournalLines(id) # {} => \E n \in RefNames : refFiles[n] = id

\* The rows of the per-unit datasets of the contests of the progress ledger,
\* among the first k contests of the list, in the order of the list.
RECURSIVE LedgerRows(_)
LedgerRows(k) ==
    IF k = 0 THEN <<>>
    ELSE LedgerRows(k - 1) \o
         (IF contests[k] \in Range(progress) THEN csvFile[contests[k]].rows ELSE <<>>)

\* C9: when main has come to its end, in its first process or in a restarted
\* one, the aggregated file is what one uninterrupted run over the contests
\* of the ledger writes: their rows, deduplicated and sorted.
C9_RestartEquivalence ==
    (phase = "ended" /\ progress # <<>>) =>
        /\ aggFile.exists
        /\ aggFile.rows = SortRows(DropDuplicateDesigns(LedgerRows(Len(contests))))

\* C10: a process that an interrupt ended has run the final save of main, as
\* a process that came to its end has: every process that is over has saved.
C10_InterruptFinalSave ==
    phase \in {"ended", "interrupted"} => finalSaves = starts

\* The contests that have a record in the failure file.
FailureFileUnits == {failFile.rows[i].ContestID : i \in DOMAIN failFile.rows}

\* C11: when a process is over, by coming to its end or by an interrupt,
\* every contest that ended in failure has its record in the failure file:
\* no failure is held in memory alone where the process can end.
C11_FailureDurable ==
    phase \in {"ended", "interrupted"} => failedUnits \subseteq FailureFileUnits

\* The contests of the list that main has brought to their end: appended to
\* the progress ledger (by a download, by the merge of an existing dataset
\* or by an earlier process) or recorded as failed.
SettledUnits == Range(progress) \cup failedUnits

\* C12: without an interrupt, main comes to its end with every contest of
\* the list skipped, completed or failed, whatever the pipeline of the
\* contests before it returned or raised.
C12_CampaignNeverHalts ==
    <>(phase = "ended" /\ Range(contests) \subseteq SettledUnits)

\* main is over and a contest after a failed one was completed in this process.
C12_Witness ==
    /\ phase = "ended"
    /\ successful_downloads > 0
    /\ \E f \in failedUnits : \E k \in DOMAIN progress : progress[k] > f

\* The errors the specification classifies as fatal: an HTTP status 4xx
\* other than 429, and a malformed request.
Fatal == {"HTTPError404", "InvalidURL"}

\* C13: a contest whose attempts raise a fatal error fails after one call of
\* download_images: when the one attempt made so far raised a fatal error,
\* no wait before a second attempt is taken.
C13_FatalFailsAtOnce ==
    (attempt = 1 /\ last_error \in Fatal) => phase # "wait"

\* C17: the wait before attempt k of download_contest_with_retry is at least
\* min(base * 2^(k-1), 300 s), for every draw of the jitter.
C17_WaitAtLeastBackoff ==
    phase = "wait" => wait_time >= base_wait(base_delay, attempt)

\* C14: in safe_request, once an attempt failed with a fatal error the call
\* is in its handler or has raised: no further session.get and no sleep.
C14_FatalPropagates ==
    (\E i \in DOMAIN sr_failures : sr_failures[i] \in Fatal) =>
        /\ sr_pc \in {"except", "raised"}
        /\ Fatal \cap Range(SubSeq(sr_failures, 1, Len(sr_failures) - 1)) = {}

\* C15: safe_request with bound n issues at most n session.get calls; the
\* one that succeeds is the last and the call returns with nothing raised;
\* after n failures the call does not return; an exception of the retryable
\* classes reaches the caller only from the n-th attempt.
C15_BoundedAbsorbingRetry ==
    /\ sr_gets <= sr_max_retries
    /\ sr_gets = Len(sr_failures) + (IF sr_pc = "returned" THEN 1 ELSE 0)
    /\ sr_pc = "returned" => sr_raised = None
    /\ Len(sr_failures) = sr_max_retries => sr_pc \notin {"get", "returned"}
    /\ (sr_pc = "raised" /\ Len(sr_failures) < sr_max_retries) =>
           sr_raised \notin retryable_exceptions

\* A call that returned after two failed attempts, and a call that raised
\* after all its attempts failed, are both reached.
C15_Witness ==
    \/ sr_pc = "returned" /\ Len(sr_failures) = 2 /\ sr_max_retries = 3
    \/ sr_pc = "raised" /\ Len(sr_failures) = 3 /\ sr_max_retries = 3
          /\ sr_raised \in retryable_exceptions

\* C16: the delay slept before retry k of safe_request lies between
\* min(base * 2^(k-1), 30 s) and that plus 1.5 s.
C16_BackoffBounds ==
    (sr_pc = "get" /\ sr_attempt >= 1) =>
        LET b == sr_base_delay * 2 ^ (sr_attempt - 1)
            floor == IF b < max_delay THEN b ELSE max_delay
        IN floor <= sr_delay /\ sr_delay <= floor + max_jitter

\* A second retry whose delay is cut by the cap has been slept.
C16_Witness ==
    /\ sr_pc = "get" /\ sr_attempt = 2
    /\ sr_base_delay * 2 + 5 > max_delay
    /\ sr_delay = max_delay

\* C18: download_images is not called on a contest that is in the progress
\* ledger, on disk or as main loaded it, nor on one whose per-unit dataset
\* is on disk and passes the validity check.
C18_SkippedNeverInvoked ==
    phase = "start" =>
        /\ Cur \notin completed_contests
        /\ Cur \notin Range(progress)
        /\ ~check_contest_completion(Cur)

\* A restarted process skipped contest 1 from the ledger, merged the dataset
\* that the interrupted process left for contest 2, and calls download_images
\* on contest 3.
C18_Witness ==
    /\ starts = 2 /\ phase = "start" /\ Cur = 3
    /\ skipped_downloads = 1 /\ 1 \in completed_contests
    /\ successful_downloads = 1 /\ run[2] = 1 /\ 2 \in Range(progress)

\* The design ids of the rows of the per-unit dataset of a contest, 0 for
\* a row without one.
DesignIds(c) == {csvFile[c].rows[k].DesignID : k \in DOMAIN csvFile[c].rows}

\* The contests that failed in this process: those of the buffered records.
FailedThisRun == {failed_contests[i].ContestID : i \in DOMAIN failed_contests}

\* C19: a contest of the progress ledger has a per-unit dataset with a row
\* that has a design id; the rows of a contest appended by this process are
\* in the aggregated data; a contest that failed in this process is not in
\* the ledger; and when download_contest_with_retry returned success the
\* dataset of the contest has a row with a design id.
C19_LedgerAfterValidMerge ==
    /\ \A c \in Range(progress) : DesignIds(c) \ {0} # {}
    /\ phase \notin {"boot", "interrupted"} =>
           \A c \in Range(progress) \ completed_contests :
               DesignIds(c) \subseteq {all_contests_df[k].DesignID : k \in DOMAIN all_contests_df}
    /\ FailedThisRun \cap Range(progress) = {}
    /\ phase = "failure" => Cur \notin Range(progress)
    /\ phase = "success" => DesignIds(Cur) \ {0} # {}

\* main is over: a contest failed and left a dataset without a design id on
\* disk, and another was downloaded and appended to the ledger.
C19_Witness ==
    /\ phase = "ended" /\ successful_downloads > 0
    /\ \E f \in failedUnits : csvFile[f].exists /\ DesignIds(f) = {0}
    /\ \E c \in Range(progress) \ completed_contests : run[c] > 0

\* The contests this process appended to the ledger that have a row which
\* is not in the aggregated file on disk.
UnsavedUnits ==
    {c \in Range(progress) \ completed_contests :
        ~(DesignIds(c) \subseteq {aggFile.rows[k].DesignID : k \in DOMAIN aggFile.rows})}

\* C20: when the successes of this process are a multiple of five, the
\* aggregated file holds all the rows merged so far; at every moment at
\* most four contests completed by this process have rows in memory alone.
C20_CheckpointEveryFive ==
    /\ (successful_downloads > 0 /\ successful_downloads % CheckpointEvery = 0) =>
           aggFile = File(all_contests_df)
    /\ phase # "boot" => Cardinality(UnsavedUnits) <= CheckpointEvery - 1

\* The fifth success of the process has been merged and saved, and the
\* loop goes on.
C20_Witness ==
    /\ successful_downloads = CheckpointEvery
    /\ phase = "main" /\ idx <= Len(contests)
    /\ aggFile = File(all_contests_df)
    /\ Len(all_contests_df) >= 2 * CheckpointEvery

\* The rows merged by a process that started with an empty ledger and no
\* aggregated file, in the order of the merges.
MergedRows == LedgerRows(Len(contests))

\* C21: when main has come to its end with rows merged, the aggregated file
\* has no two rows with the same DesignID, the row it keeps of a DesignID is
\* the first one merged, every DesignID merged is there, and its rows go by
\* ContestID descending and then Entry descending.
C21_FinalDedupSort ==
    (phase = "ended" /\ starts = 1 /\ MergedRows # <<>>) =>
        LET out == aggFile.rows IN
        /\ aggFile.exists
        /\ \A i, j \in DOMAIN out : out[i].DesignID = out[j].DesignID => i = j
        /\ \A i \in DOMAIN out :
              \E k \in DOMAIN MergedRows :
                 /\ MergedRows[k] = out[i]
                 /\ \A j \in 1..(k - 1) : MergedRows[j].DesignID # out[i].DesignID
        /\ \A k \in DOMAIN MergedRows :
              \E i \in DOMAIN out : out[i].DesignID = MergedRows[k].DesignID
        /\ \A i, j \in DOMAIN out :
              i < j => \/ out[i].ContestID > out[j].ContestID
                       \/ /\ out[i].ContestID = out[j].ContestID
                          /\ out[i].Entry >= out[j].Entry

\* main is over: rows without a design id of two contests were merged, and
\* the file keeps one of them among rows of both contests.
C21_Witness ==
    /\ phase = "ended" /\ aggFile.exists
    /\ Len(aggFile.rows) < Len(MergedRows)
    /\ \E i, j \in DOMAIN MergedRows :
          /\ MergedRows[i].ContestID = 1 /\ MergedRows[j].ContestID = 2
          /\ MergedRows[i].DesignID = 0 /\ MergedRows[j].DesignID = 0
    /\ \E i, j \in DOMAIN aggFile.rows : aggFile.rows[i].ContestID # aggFile.rows[j].ContestID

\* C22: the page count get_total_pages returned from a fetched first
\* listing page, with which the pool is set up, is at least 1.
C22_TotalPagesAtLeastOne ==
    phase = "pool" => total_pages >= 1

\* The page tasks of the current call that ended with an exception.
RaisedTasks == {p \in 1..total_pages : task[p].raised}

\* C23: an exception that ends one page task (raised while the page is
\* parsed, or at the id of an entry before the per-entry handler) does not
\* leave the pool and stops no other task: every other task runs through all
\* the entries of its page, the rows of every other task are collected, and
\* the call goes on to the aggregation, which writes them.
C23_TaskIsolation ==
    RaisedTasks # {} =>
        /\ phase \in {"pool", "returned"}
        /\ \A q \in (1..total_pages) \ RaisedTasks :
               task[q].st = "collected" =>
                   /\ task[q].ok => task[q].i = Len(task[q].entries) + 1
                   /\ \A k \in DOMAIN task[q].page_data :
                          \E j \in DOMAIN csv_data : csv_data[j] = task[q].page_data[k]
        /\ phase = "returned" =>
               /\ \A q \in 1..total_pages : task[q].st = "collected"
               /\ \A j \in DOMAIN csv_data :
                      /\ csvFile[Cur].exists
                      /\ RowsOf(DatasetRows, csv_data[j].Entry) # {}

C23_Witness ==
    /\ phase = "returned"
    /\ \E p \in RaisedTasks : task[p].entries # <<>>
    /\ \E q \in (1..total_pages) \ RaisedTasks : task[q].page_data # <<>>
    /\ csvFile[Cur].exists

\* The states of a page task, in the order a task goes through them.
TaskRank(st) ==
    CASE st = "idle" -> 0 [] st = "queued" -> 1 [] st = "fetch" -> 2
      [] st = "entries" -> 3 [] st = "done" -> 4 [] st = "collected" -> 5

\* C24: in the pool of a call at most max_workers page tasks run at a time;
\* every page 1..total_pages is one task, which is started once and never
\* goes back to an earlier state; and the aggregation comes only when every
\* page task has ended and was collected.
C24_BoundedConcurrency ==
    /\ [](phase = "pool" =>
             /\ Cardinality(Running) <= max_workers
             /\ DOMAIN task = 1..total_pages
             /\ \A p \in 1..total_pages : task[p].st # "idle")
    /\ [](phase = "returned" => \A p \in 1..total_pages : task[p].st = "collected")
    /\ [][(phase = "pool" /\ phase' \in {"pool", "returned"}) =>
             /\ DOMAIN task' = DOMAIN task
             /\ \A p \in DOMAIN task : TaskRank(task'[p].st) >= TaskRank(task[p].st)]_vars

C24_Witness ==
    /\ phase = "pool"
    /\ Cardinality(Running) = max_workers
    /\ \E p \in 1..total_pages : task[p].st = "queued"

\* Lines 520-532: the page tasks of the current call that fetched the profile
\* of designer u.  A task fetches a profile when the designer is not in its
\* own visited_authors, so it fetches each profile at most once.
ProfileFetchers(u) == {p \in 1..total_pages : u \in task[p].visited_authors}

\* C25: within one call of the pipeline on a contest the profile of a
\* designer is fetched at most once, also when the designer has entries on
\* pages handled by different page tasks.
C25_ProfileFetchedOnce ==
    \A e \in Entries : Cardinality(ProfileFetchers(UserOf(e))) <= 1

C27_EmptyResultNoRetry ==
    [][(phase = "returned" /\ csv_data = <<>>) => phase' \notin {"wait", "failure"}]_vars

C29_AtMostMaxRetriesCalls ==
    phase = "start" => attempt + 1 <= max_retries

\* C30: check_contest_completion reports the dataset of a contest complete
\* exactly when the file exists, can be read, has a row, has the columns
\* DesignID, Entry and UserID, and has a row with a DesignID (not null, not
\* 'N/A', not empty); in every other case it reports not complete, with a
\* result and no exception.  main follows the report: a contest in the
\* progress ledger for which the pipeline never ran has such a dataset.
C30_CompletionCheck ==
    \A c \in 1..NumContests :
        LET f == csvFile[c]
            res == contest_completion(f)
        IN /\ res \in BOOLEAN \X Nat \X Nat
           /\ res[1] <=> /\ f.exists /\ f.readable
                         /\ Len(f.rows) >= 1
                         /\ {"DesignID", "Entry", "UserID"} \subseteq f.columns
                         /\ \E k \in DOMAIN f.rows : f.rows[k].DesignID # 0
           /\ ~res[1] => res[3] = 0
           /\ (c \in Range(progress) /\ run[c] = 0) => res[1]

\* main is over; the dataset found for a contest had rows with a DesignID
\* but not the UserID column, and the pipeline was run for the contest.
C30_Witness ==
    /\ phase = "ended"
    /\ \E c \in 1..NumContests :
          /\ csvFile[c].exists /\ csvFile[c].readable
          /\ ValidEntries(csvFile[c].rows) # {}
          /\ "UserID" \notin csvFile[c].columns
          /\ run[c] >= 1
    /\ \E c \in Range(progress) : run[c] = 0

\* C31: every wait between two attempts of a retry site stays under a
\* ceiling that does not depend on the attempt index; here for the
\* whole-unit retry of main_brief.py, against the largest ceiling of the
\* other sites: the 300 s of main_afterpage.py times its largest jitter 1.5
\* (in tenths of a second).
C31_WaitUnderCeiling ==
    LET ceiling == (max_wait * max_jitter) \div 10
    IN phase = "b_loop" => wait_time <= ceiling

\* C39: in the brief campaign a contest is counted as a successful download
\* only if its per-unit dataset file is there, and a contest the loop is
\* done with that has no dataset is in the failure records.
C39_BriefSuccessHasDataset ==
    phase = "b_main" =>
        LET visited == {contests[k] : k \in 1..(idx - 1)}
        IN /\ successful_downloads <= Cardinality({c \in visited : csvFile[c].exists})
           /\ \A c \in visited : ~csvFile[c].exists => c \in failedUnits

\* C32: the aggregated file on disk is never torn: in every state, also
\* after an interrupt or a kill during a save, it is a complete save, the
\* one before or the new one.
C32_CheckpointNeverTorn ==
    aggFile.exists => ~aggFile.torn

\* C33: within one call no two page tasks issue a download request for the
\* image of the same entry, whatever the order of their checks of
\* successful_entries and of the directory, their downloads and their
\* insertions into successful_entries.
C33_NoDoubleDownload ==
    phase = "pool" =>
        \A p, q \in 1..total_pages :
            (/\ p # q
             /\ AtEntry(p, "emit") /\ task[p].req
             /\ AtEntry(q, "emit") /\ task[q].req) => CurEntry(p) # CurEntry(q)

\* C34: the two counts get_brief_info returns depend on the brief page
\* alone: whatever the journal held when the call began, at the end of the
\* loop they are the counts a call with an empty journal gets, which
\* classifies every publicId match of the page.
C34_CountsIndependentOfJournal ==
    (phase = "brief" /\ bstage = "check" /\ bidx > Len(public_id_matches)) =>
        LET designated == {k \in DOMAIN public_id_matches :
                               /\ references_public_ids # None
                               /\ public_id_matches[k] = references_public_ids}
        IN /\ reference_count = Cardinality(designated)
           /\ inspiration_count = Len(public_id_matches) - Cardinality(designated)
\* C35: a page task skips the download of an entry image on the file check
\* only if the file found holds the completely written bytes, also after
\* a write that failed part-way in an earlier attempt or an earlier call.
C35_SkipOnlyOnCompleteFile ==
    \A p \in 1..MaxPages :
        (/\ phase = "pool" /\ p <= total_pages
         /\ AtEntry(p, "emit")
         /\ task[p].chk = "file" /\ ~task[p].req)
            => EntryAsset(CurEntry(p)) \in completed
\* C36: whenever main counts a contest as successful, at the move to the
\* next contest the contest is in the progress ledger, every row of its
\* dataset is in all_contests_df, and no failure record (buffered, in
\* memory or in the file) names it.
C36_SuccessfulUnitRecorded ==
    [][(phase \in {"main", "success"} /\ successful_downloads' = successful_downloads + 1) =>
          LET records == Range(failed_contests') \cup Range(failed_df')
                             \cup Range(failFile'.rows)
          IN /\ Cur \in Range(progress')
             /\ \A k \in DOMAIN csvFile'[Cur].rows :
                    \E i \in DOMAIN all_contests_df' :
                        all_contests_df'[i] = csvFile'[Cur].rows[k]
             /\ \A r \in records : r.ContestID # Cur]_vars
\* C37: in a process of main every contest the loop has visited has
\* incremented exactly one of successful_downloads, failed_downloads and
\* skipped_downloads: their sum is the number of contests visited, and at
\* the end of a run that was not interrupted it is the length of the list.
C37_CounterConsistency ==
    LET counted == successful_downloads + failed_downloads + skipped_downloads
    IN /\ phase \in {"main", "success", "failure"} => counted = idx - 1
       /\ phase = "ended" => counted = Len(contests)

C37_Witness ==
    /\ phase = "ended"
    /\ successful_downloads > 0
    /\ failed_downloads > 0
    /\ skipped_downloads > 0
\* C38: when main has come to its end, the aggregated file has, for every
\* row of every per-unit dataset merged, a row of the same ContestID and
\* Entry: also for the rows without a design id and for the rows whose
\* DesignID a row of another contest has.
C38_NoDistinctRecordLost ==
    (phase = "ended" /\ starts = 1 /\ MergedRows # <<>>) =>
        \A k \in DOMAIN MergedRows :
            \E i \in DOMAIN aggFile.rows :
                /\ aggFile.rows[i].ContestID = MergedRows[k].ContestID
                /\ aggFile.rows[i].Entry = MergedRows[k].Entry
====
